---------------------------- MODULE Spec2Model ----------------------------
(***************************************************************************)
(* A model of the EMR-Mental-Health repository:                            *)
(*   - createDataDictionary / inferType / isValidDate of                    *)
(*     Code/DataDictionary.hpp (the data-dictionary generator), and         *)
(*   - the /api/patients/{pid}/communications endpoints of the web host.    *)
(*                                                                         *)
(* Cell values are the values the sheet hands to the script: a string, a   *)
(* number, a boolean, a Date object or null.  A text is a sequence of      *)
(* one-character strings so that parsing and lower-casing are computed.    *)
(***************************************************************************)
EXTENDS Integers, Sequences, FiniteSets, TLC

VARIABLES
    \* ---- the spreadsheet and the run of createDataDictionary ----
    sourceExists,   \* whether the sheet "EMR_Data" exists
    data,           \* source.getDataRange().getValues(): row 1 is the header row
    dictExists,     \* whether the sheet "Data Dictionary" exists
    dict,           \* the rows of the sheet "Data Dictionary"
    dateDigits,     \* whether the host's Date parser accepts a bare digit string
    pc,             \* position of createDataDictionary
    error,          \* message of the Error thrown, "" when none
    headers,        \* const headers
    rows,           \* const rows
    col,            \* index of the forEach callback (1-based)
    columnValues,   \* const columnValues of the current callback
    nonEmpty,       \* const nonEmpty of the current callback
    k,              \* position of the for loop of inferType
    isNum,          \* inferType's flag
    isDate,         \* inferType's flag
    isBool,         \* inferType's flag
    dataType,       \* what inferType returned to the current callback
    \* ---- the web host ----
    communications, \* the List<JsonElement>: its array of items and its size
    req,            \* the requests in flight, one slot per connection
    posted,         \* bodies that parsed as JSON, in completion order of their POST
    nPosts          \* number of POST requests received so far

dictVars == <<sourceExists, data, dictExists, dict, dateDigits, pc, error, headers,
              rows, col, columnValues, nonEmpty, k, isNum, isDate, isBool, dataType>>
apiVars == <<communications, req, posted, nPosts>>
vars == <<dictVars, apiVars>>

-----------------------------------------------------------------------------
(* Bounds of the model *)

\* number of freely chosen data rows at the top of the source sheet
MaxHead == 2
\* number of columns of the source sheet
MaxCols == 2

-----------------------------------------------------------------------------
(* Cell values *)

Cell(tag, s, n) == [tag |-> tag, s |-> s, n |-> n]
Text(s) == Cell("string", s, 0)
Number(n) == Cell("number", <<>>, n)
Boolean(b) == Cell("boolean", <<>>, IF b THEN 1 ELSE 0)
DateObject(t) == Cell("date", <<>>, t)
Null == Cell("null", <<>>, 0)
EmptyString == Text(<<>>)

Min(a, b) == IF a < b THEN a ELSE b

\* slice with its end taken as inclusive
SliceInclusive(s, b, e) == SubSeq(s, b + 1, Min(e + 1, Len(s)))

\* Array.prototype.slice(b, e) on a sequence, b and e zero-based, e exclusive
Slice(s, b, e) == SubSeq(s, b + 1, Min(e, Len(s)))


-----------------------------------------------------------------------------
(* Texts *)

Digits == <<"0", "1", "2", "3", "4", "5", "6", "7", "8", "9">>
UpperCase == <<"A", "B", "C", "D", "E", "F", "G", "H", "I", "J", "K", "L", "M",
               "N", "O", "P", "Q", "R", "S", "T", "U", "V", "W", "X", "Y", "Z">>
LowerCase == <<"a", "b", "c", "d", "e", "f", "g", "h", "i", "j", "k", "l", "m",
               "n", "o", "p", "q", "r", "s", "t", "u", "v", "w", "x", "y", "z">>

IsDigit(c) == \E i \in 1..Len(Digits) : Digits[i] = c
DigitVal(c) == (CHOOSE i \in 1..Len(Digits) : Digits[i] = c) - 1
AllDigits(s) == \A i \in 1..Len(s) : IsDigit(s[i])
IsSpace(c) == c \in {" ", "\t", "\n", "\r"}

\* String.prototype.toLowerCase
LowerChar(c) ==
    IF \E i \in 1..Len(UpperCase) : UpperCase[i] = c
    THEN LowerCase[CHOOSE i \in 1..Len(UpperCase) : UpperCase[i] = c]
    ELSE c
toLowerCase(s) == [i \in 1..Len(s) |-> LowerChar(s[i])]

RECURSIVE TrimLeft(_)
TrimLeft(s) == IF s # <<>> /\ IsSpace(Head(s)) THEN TrimLeft(Tail(s)) ELSE s

\* isNaN(parseFloat(s)): parseFloat skips leading white space and reads the
\* longest prefix that is a decimal literal; it is NaN when there is none.
ParseFloatIsNaN(s) ==
    LET t == TrimLeft(s)
        u == IF t # <<>> /\ Head(t) \in {"+", "-"} THEN Tail(t) ELSE t
    IN  ~ \/ (Len(u) >= 1 /\ IsDigit(u[1]))
          \/ (Len(u) >= 2 /\ u[1] = "." /\ IsDigit(u[2]))
          \/ (Len(u) >= 8 /\ SubSeq(u, 1, 8) = <<"I", "n", "f", "i", "n", "i", "t", "y">>)

TwoDigits(s, i) == DigitVal(s[i]) * 10 + DigitVal(s[i + 1])

\* The date-only forms of the ECMAScript date-time string format:
\* YYYY, YYYY-MM and YYYY-MM-DD.
IsoDateOnly(s) ==
    /\ Len(s) \in {4, 7, 10}
    /\ AllDigits(SubSeq(s, 1, 4))
    /\ Len(s) >= 7 =>
          /\ s[5] = "-" /\ AllDigits(SubSeq(s, 6, 7))
          /\ TwoDigits(s, 6) \in 1..12
    /\ Len(s) = 10 =>
          /\ s[8] = "-" /\ AllDigits(SubSeq(s, 9, 10))
          /\ TwoDigits(s, 9) \in 1..31

\* isValidDate(str): new Date(str) has a time value.  A text in the standard
\* format parses; for any other text the parser is implementation-defined:
\* a bare digit string ("1") is a date on some hosts and not on others
\* (dateDigits), and a text the model draws that has neither form is
\* unrecognisable and yields NaN.
isValidDate(str) ==
    \/ IsoDateOnly(str)
    \/ (dateDigits /\ str # <<>> /\ AllDigits(str))

BooleanTokens == {<<"t", "r", "u", "e">>, <<"f", "a", "l", "s", "e">>,
                  <<"y", "e", "s">>, <<"n", "o">>}

-----------------------------------------------------------------------------
(* inferType *)

Undefined == "undefined"

\* the iteration with each flag of a text assigned from the current value
\* instead of only cleared
InferStepAssign(f, v) ==
    IF v.tag = "string"
    THEN [isDate |-> isValidDate(v.s),
          isBool |-> toLowerCase(v.s) \in BooleanTokens,
          isNum  |-> ~ParseFloatIsNaN(v.s)]
    ELSE IF v.tag = "number"
    THEN [f EXCEPT !.isBool = FALSE]
    ELSE IF v.tag = "date"
    THEN [f EXCEPT !.isNum = FALSE, !.isBool = FALSE]
    ELSE f

\* One iteration of the for loop of inferType on value v, from flags f.
InferStep(f, v) ==
    IF v.tag = "string"
    THEN [isDate |-> IF ~isValidDate(v.s) THEN FALSE ELSE f.isDate,
          isBool |-> IF toLowerCase(v.s) \notin BooleanTokens THEN FALSE ELSE f.isBool,
          isNum  |-> IF ParseFloatIsNaN(v.s) THEN FALSE ELSE f.isNum]
    ELSE IF v.tag = "number"
    THEN [f EXCEPT !.isBool = FALSE]
    ELSE IF v.tag = "date"
    THEN [f EXCEPT !.isNum = FALSE, !.isBool = FALSE]
    ELSE f

\* the returns with Numeric tested before Date
PrecedenceNumericFirst(f) ==
    IF f.isNum THEN "Numeric"
    ELSE IF f.isDate THEN "Date"
    ELSE IF f.isBool THEN "Boolean"
    ELSE "String"

\* The returns that end inferType
Precedence(f) ==
    IF f.isDate THEN "Date"
    ELSE IF f.isNum THEN "Numeric"
    ELSE IF f.isBool THEN "Boolean"
    ELSE "String"

InitialFlags == [isDate |-> TRUE, isBool |-> TRUE, isNum |-> TRUE]

RECURSIVE InferLoop(_, _)
InferLoop(f, values) ==
    IF values = <<>> THEN f ELSE InferLoop(InferStep(f, Head(values)), Tail(values))

\* inferType as a function of its argument
inferType(values) ==
    IF values = <<>> THEN Undefined ELSE Precedence(InferLoop(InitialFlags, values))

-----------------------------------------------------------------------------
(* What createDataDictionary computes for one column *)

\* v !== "" && v !== null
IsNonEmpty(v) == v # EmptyString /\ v # Null

RECURSIVE Filter(_)
Filter(values) ==
    IF values = <<>> THEN <<>>
    ELSE IF IsNonEmpty(Head(values)) THEN <<Head(values)>> \o Filter(Tail(values))
    ELSE Filter(Tail(values))

\* Equality of two entries of a Set that come from two cells: primitives are
\* compared by type and value, and every Date cell is an object of its own.
SameValueZero(a, b) == a.tag # "date" /\ a = b

RECURSIVE SetAdd(_, _)
SetAdd(seen, values) ==
    IF values = <<>> THEN seen
    ELSE IF \E j \in 1..Len(seen) : SameValueZero(seen[j], Head(values))
    THEN SetAdd(seen, Tail(values))
    ELSE SetAdd(Append(seen, Head(values)), Tail(values))

\* [...new Set(values)]: the entries in insertion order
NewSet(values) == SetAdd(<<>>, values)

RECURSIVE NatToString(_)
NatToString(n) ==
    IF n < 10 THEN <<Digits[n + 1]>> ELSE NatToString(n \div 10) \o <<Digits[(n % 10) + 1]>>

WeekDays == <<<<"T", "h", "u">>, <<"F", "r", "i">>,
              <<"S", "a", "t">>, <<"S", "u", "n">>,
              <<"M", "o", "n">>, <<"T", "u", "e">>,
              <<"W", "e", "d">>>>

\* Date.prototype.toString of day t of January 1970, script time zone UTC
DateToString(t) ==
    WeekDays[(t % 7) + 1] \o <<" ", "J", "a", "n", " ">>
      \o (IF t + 1 < 10 THEN <<"0">> ELSE <<>>) \o NatToString(t + 1)
      \o <<" ", "1", "9", "7", "0", " ", "0", "0", ":", "0", "0", ":", "0", "0", " ", "G", "M", "T", "+", "0", "0", "0", "0", " ">>
      \o <<"(", "C", "o", "o", "r", "d", "i", "n", "a", "t", "e", "d", " ", "U", "n", "i", "v", "e", "r", "s", "a", "l", " ", "T", "i", "m", "e", ")">>

\* ToString of an array element, as join applies it
ElementToString(v) ==
    IF v.tag = "string" THEN v.s
    ELSE IF v.tag = "number" THEN NatToString(v.n)
    ELSE IF v.tag = "boolean" THEN (IF v.n = 1 THEN <<"t", "r", "u", "e">> ELSE <<"f", "a", "l", "s", "e">>)
    ELSE IF v.tag = "date" THEN DateToString(v.n)
    ELSE <<>>

RECURSIVE Join(_, _)
Join(values, sep) ==
    IF values = <<>> THEN <<>>
    ELSE IF Len(values) = 1 THEN ElementToString(values[1])
    ELSE ElementToString(values[1]) \o sep \o Join(Tail(values), sep)

\* const SAMPLE_ROWS = 10
SAMPLE_ROWS == 10
\* the bound of .slice(0, 10) on the unique values
UNIQUE_LIMIT == 10

dictHeaders == <<"Field Name", "Data Type", "Description", "Example Value",
                 "Missing Count", "Unique Values (sample)">>

\* rows.map(r => r[col])
ColumnOf(rs, c) == [i \in 1..Len(rs) |-> rs[i][c]]

\* [...new Set(nonEmpty)].slice(0, 10)
UniqueSample(values) == Slice(NewSet(values), 0, UNIQUE_LIMIT)

\* the array handed to dict.appendRow for one column
RecordRow(header, type, colValues, values) ==
    << header,
       type,
       "",
       IF Len(values) # 0 THEN values[1] ELSE EmptyString,
       Len(colValues) - Len(values),
       Join(UniqueSample(values), <<",", " ">>) >>

-----------------------------------------------------------------------------
(* The source sheets the model draws *)

\* values of the first column in the freely chosen rows
HeadValues ==
    { EmptyString, Null,
      Text(<<"1">>), Text(<<"2", "0", "2", "4", "-", "0", "1", "-", "0", "5">>),
      Text(<<"Y", "e", "s">>), Text(<<"n", "/", "a">>),
      Number(1), Boolean(TRUE), DateObject(0) }
\* value of the other columns in the freely chosen rows
OtherValues == { EmptyString, Text(<<"N", "o">>) }

HeaderRow(nc) == [c \in 1..nc |-> Text(<<"f", Digits[c + 1]>>)]
HeadRow(v, w, nc) == [c \in 1..nc |-> IF c = 1 THEN v ELSE w]
BlankRow(nc) == [c \in 1..nc |-> EmptyString]
LastRow(nc) == [c \in 1..nc |-> Text(<<"n", "/", "a">>)]

\* header row, up to MaxHead free rows, pad blank rows, then tail further rows
Sheet(nc, first, w, pad, tail) ==
    <<HeaderRow(nc)>>
      \o [i \in 1..Len(first) |-> HeadRow(first[i], w, nc)]
      \o [i \in 1..pad |-> BlankRow(nc)]
      \o [i \in 1..tail |-> LastRow(nc)]

Sheets ==
    { Sheet(nc, first, w, pad, tail) :
        nc \in 1..MaxCols,
        first \in UNION { [1..h -> HeadValues] : h \in 0..MaxHead },
        w \in OtherValues,
        pad \in {0, SAMPLE_ROWS - 1},
        tail \in 0..1 }

\* a dictionary sheet left by an earlier run
OldDict == << dictHeaders,
              << Text(<<"o", "l", "d">>), "String", "", Text(<<"x">>), 0, <<"x">> >> >>

-----------------------------------------------------------------------------
(* createDataDictionary *)

NoSourceSheet == "Source sheet not found: EMR_Data"
NoRows == "Data sheet has no rows."

\* the web host before its first request
ApiIdle ==
    /\ communications = [items |-> <<>>, size |-> 0]
    /\ req = <<>>
    /\ posted = <<>>
    /\ nPosts = 0

Init ==
    /\ sourceExists \in BOOLEAN
    /\ data \in (IF sourceExists THEN Sheets ELSE {<<>>})
    /\ dictExists \in BOOLEAN
    /\ dict = (IF dictExists THEN OldDict ELSE <<>>)
    /\ dateDigits \in BOOLEAN
    /\ pc = "start"
    /\ error = ""
    /\ headers = <<>>
    /\ rows = <<>>
    /\ col = 0
    /\ columnValues = <<>>
    /\ nonEmpty = <<>>
    /\ k = 0
    /\ isNum = TRUE
    /\ isDate = TRUE
    /\ isBool = TRUE
    /\ dataType = Undefined
    /\ ApiIdle

\* the run with the dictionary sheet created or cleared before the data is
\* read and checked
StartClearFirst ==
    /\ pc = "start"
    /\ IF ~sourceExists
       THEN /\ pc' = "failed"
            /\ error' = NoSourceSheet
            /\ UNCHANGED <<dictExists, dict, headers, rows, col>>
       ELSE IF Len(data) < 2
       THEN /\ pc' = "failed"
            /\ error' = NoRows
            /\ dictExists' = TRUE
            /\ dict' = <<>>
            /\ UNCHANGED <<headers, rows, col>>
       ELSE /\ headers' = data[1]
            /\ rows' = Slice(data, 1, 1 + SAMPLE_ROWS)
            /\ dictExists' = TRUE
            /\ dict' = <<dictHeaders>>
            /\ col' = 1
            /\ pc' = "column"
            /\ UNCHANGED error
    /\ UNCHANGED <<sourceExists, data, dateDigits, columnValues, nonEmpty, k,
                   isNum, isDate, isBool, dataType, apiVars>>

\* Lines 79-113: look the source sheet up, read it, refuse a sheet without data
\* rows, take the sample, create or clear the dictionary sheet, write its header.
Start ==
    /\ pc = "start"
    /\ IF ~sourceExists
       THEN /\ pc' = "failed"
            /\ error' = NoSourceSheet
            /\ UNCHANGED <<dictExists, dict, headers, rows, col>>
       ELSE IF Len(data) < 2
       THEN /\ pc' = "failed"
            /\ error' = NoRows
            /\ UNCHANGED <<dictExists, dict, headers, rows, col>>
       ELSE /\ headers' = data[1]
            /\ rows' = Slice(data, 1, 1 + SAMPLE_ROWS)
            /\ dictExists' = TRUE
            /\ dict' = <<dictHeaders>>
            /\ col' = 1
            /\ pc' = "column"
            /\ UNCHANGED error
    /\ UNCHANGED <<sourceExists, data, dateDigits, columnValues, nonEmpty, k,
                   isNum, isDate, isBool, dataType, apiVars>>

\* Lines 116-120 and 145-148: the callback of column col takes its values and
\* calls inferType, which returns at once on an empty argument.
ForEachColumn ==
    /\ pc = "column"
    /\ col <= Len(headers)
    /\ columnValues' = ColumnOf(rows, col)
    /\ nonEmpty' = Filter(columnValues')
    /\ IF nonEmpty' = <<>>
       THEN /\ dataType' = Undefined
            /\ pc' = "inferred"
            /\ UNCHANGED <<k, isNum, isDate, isBool>>
       ELSE /\ isNum' = TRUE
            /\ isDate' = TRUE
            /\ isBool' = TRUE
            /\ k' = 1
            /\ pc' = "infer"
            /\ UNCHANGED dataType
    /\ UNCHANGED <<sourceExists, data, dictExists, dict, dateDigits, error, headers,
                   rows, col, apiVars>>

\* Lines 150-171: one iteration of the loop of inferType
InferIterate ==
    /\ pc = "infer"
    /\ k <= Len(nonEmpty)
    /\ LET f == InferStep([isDate |-> isDate, isBool |-> isBool, isNum |-> isNum],
                          nonEmpty[k])
       IN  /\ isNum' = f.isNum
           /\ isDate' = f.isDate
           /\ isBool' = f.isBool
    /\ k' = k + 1
    /\ UNCHANGED <<sourceExists, data, dictExists, dict, dateDigits, pc, error, headers,
                   rows, col, columnValues, nonEmpty, dataType, apiVars>>

\* Lines 173-176: the loop is over, inferType returns
InferReturn ==
    /\ pc = "infer"
    /\ k > Len(nonEmpty)
    /\ dataType' = Precedence([isDate |-> isDate, isBool |-> isBool, isNum |-> isNum])
    /\ pc' = "inferred"
    /\ UNCHANGED <<sourceExists, data, dictExists, dict, dateDigits, error, headers,
                   rows, col, columnValues, nonEmpty, k, isNum, isDate, isBool, apiVars>>

\* the callback with its record inserted right under the header row
InsertRecord ==
    /\ pc = "inferred"
    /\ dict' = <<dict[1], RecordRow(headers[col], dataType, columnValues, nonEmpty)>>
                  \o Tail(dict)
    /\ col' = col + 1
    /\ pc' = "column"
    /\ UNCHANGED <<sourceExists, data, dictExists, dateDigits, error, headers, rows,
                   columnValues, nonEmpty, k, isNum, isDate, isBool, dataType, apiVars>>

\* Lines 121-136: the callback appends the record of its column
AppendRecord ==
    /\ pc = "inferred"
    /\ dict' = Append(dict, RecordRow(headers[col], dataType, columnValues, nonEmpty))
    /\ col' = col + 1
    /\ pc' = "column"
    /\ UNCHANGED <<sourceExists, data, dictExists, dateDigits, error, headers, rows,
                   columnValues, nonEmpty, k, isNum, isDate, isBool, dataType, apiVars>>

\* Line 138: forEach is over, dict.autoResizeColumns
AutoResize ==
    /\ pc = "column"
    /\ col > Len(headers)
    /\ pc' = "done"
    /\ UNCHANGED <<sourceExists, data, dictExists, dict, dateDigits, error, headers,
                   rows, col, columnValues, nonEmpty, k, isNum, isDate, isBool,
                   dataType, apiVars>>

Next ==
    \/ Start
    \/ ForEachColumn
    \/ InferIterate
    \/ InferReturn
    \/ AppendRecord
    \/ AutoResize

Spec == Init /\ [][Next]_vars

-----------------------------------------------------------------------------
(* Properties of the data dictionary *)

\* the run got past its checks
Running == pc \notin {"start", "failed"}
\* number of records written so far
NumRecords == IF Running THEN Len(dict) - 1 ELSE 0
\* the record of column c, once written
RecordOfColumn(c) == dict[c + 1]
FieldName(r) == r[1]
DataType(r) == r[2]
MissingCount(r) == r[5]

\* the data rows of the source sheet, and the number of them that is sampled
DataRows == Tail(data)
SampledCount == Min(SAMPLE_ROWS, Len(DataRows))
IsMissing(v) == v = EmptyString \/ v = Null
AllFlags == <<isDate, isNum, isBool>>

\* C1: inferType called with no value returns "String", so the record of a
\* column whose sampled values are all missing has data type String.
C1_EmptyIsString ==
    /\ (pc = "inferred" /\ nonEmpty = <<>>) => dataType = "String"
    /\ \A c \in 1..NumRecords :
          (\A r \in 1..SampledCount : IsMissing(DataRows[r][c]))
              => DataType(RecordOfColumn(c)) = "String"

\* C2: a non-empty argument whose values are numbers or texts that parse as a
\* number, none of them a text that parses as a date, is classified Numeric.
C2_NumbersAreNumeric ==
    ( /\ pc = "inferred"
      /\ nonEmpty # <<>>
      /\ \A i \in 1..Len(nonEmpty) :
            \/ nonEmpty[i].tag = "number"
            \/ /\ nonEmpty[i].tag = "string"
               /\ ~ParseFloatIsNaN(nonEmpty[i].s)
               /\ ~isValidDate(nonEmpty[i].s) )
    => dataType = "Numeric"

\* C3: each flag starts true and is never set back to true once a value
\* cleared it, and on return the result is Date if isDate survived, else
\* Numeric if isNum survived, else Boolean if isBool survived, else String.
C3_FlagsDecide ==
    [][ /\ (pc # "infer" /\ pc' = "infer") => (isDate' /\ isNum' /\ isBool')
        /\ (pc = "infer" /\ pc' = "infer") =>
              /\ isDate' => isDate
              /\ isNum' => isNum
              /\ isBool' => isBool
        /\ (pc = "infer" /\ pc' = "inferred") =>
              /\ AllFlags' = AllFlags
              /\ isDate => dataType' = "Date"
              /\ (~isDate /\ isNum) => dataType' = "Numeric"
              /\ (~isDate /\ ~isNum /\ isBool) => dataType' = "Boolean"
              /\ (~isDate /\ ~isNum /\ ~isBool) => dataType' = "String" ]_vars

\* a value cleared isDate and isBool, isNum survived and decided the result
C3_Witness ==
    /\ pc = "inferred"
    /\ Len(nonEmpty) >= 2
    /\ ~isDate /\ isNum /\ ~isBool
    /\ dataType = "Numeric"

Permuted(s, p) == [i \in 1..Len(s) |-> s[p[i]]]

\* C4: inferType returns the same category for every re-ordering of its
\* argument.
C4_OrderInvariant ==
    pc = "inferred" =>
        \A p \in Permutations(1..Len(nonEmpty)) :
            inferType(Permuted(nonEmpty, p)) = dataType

\* an argument of two values that clear different flags, one flag surviving
C4_Witness ==
    /\ pc = "inferred"
    /\ Len(nonEmpty) >= 2
    /\ InferStep(InitialFlags, nonEmpty[1]) # InferStep(InitialFlags, nonEmpty[2])
    /\ InferStep(InitialFlags, nonEmpty[1]) # InitialFlags
    /\ InferStep(InitialFlags, nonEmpty[2]) # InitialFlags
    /\ dataType = "Date"

\* C5: on a source sheet with a header row and no data row the run fails with
\* the empty-dataset error, and the dictionary sheet is neither created,
\* cleared nor written.
C5_EmptyDatasetFails ==
    (sourceExists /\ Len(data) < 2) =>
        /\ pc \in {"start", "failed"}
        /\ pc = "failed" => error = NoRows
        /\ dict = (IF dictExists THEN OldDict ELSE <<>>)

\* the run failed on an empty dataset while an older dictionary existed
C5_Witness ==
    /\ pc = "failed"
    /\ error = NoRows
    /\ Len(data) = 1
    /\ dictExists /\ dict = OldDict

\* the first n distinct non-missing values of a sequence, by value
RECURSIVE FirstDistinct(_, _, _)
FirstDistinct(seen, values, n) ==
    IF values = <<>> \/ Len(seen) = n THEN seen
    ELSE IF IsMissing(Head(values)) \/ \E j \in 1..Len(seen) : seen[j] = Head(values)
    THEN FirstDistinct(seen, Tail(values), n)
    ELSE FirstDistinct(Append(seen, Head(values)), Tail(values), n)

\* C6: the unique-values sample of a column has at most 10 entries, no
\* duplicate and no missing value, and is the first 10 distinct non-missing
\* sampled values of the column in the order of their first occurrence.
C6_UniqueSample ==
    pc = "inferred" =>
        LET u == UniqueSample(nonEmpty)
        IN  /\ Len(u) <= 10
            /\ \A i, j \in 1..Len(u) : i # j => u[i] # u[j]
            /\ \A i \in 1..Len(u) : ~IsMissing(u[i])
            /\ u = FirstDistinct(<<>>, [r \in 1..SampledCount |-> DataRows[r][col]], 10)

\* C7: missingCount plus the number of non-missing sampled values is the
\* number of sampled rows, the sampled rows being the first
\* min(SAMPLE_ROWS, number of data rows) data rows; the record of a column is
\* the record of that prefix alone.
C7_MissingCount ==
    \A c \in 1..NumRecords :
        LET sampled == [r \in 1..SampledCount |-> DataRows[r][c]]
            missing == {r \in 1..SampledCount : IsMissing(sampled[r])}
            present == {r \in 1..SampledCount : ~IsMissing(sampled[r])}
        IN  /\ MissingCount(RecordOfColumn(c)) = Cardinality(missing)
            /\ MissingCount(RecordOfColumn(c)) + Cardinality(present) = SampledCount
            /\ RecordOfColumn(c) =
                  RecordRow(data[1][c], inferType(Filter(sampled)), sampled, Filter(sampled))

\* a sheet of more rows than are sampled, with missing and non-missing
\* values in the sampled rows of a written column
C7_Witness ==
    /\ pc = "done"
    /\ Len(DataRows) > SAMPLE_ROWS
    /\ MissingCount(RecordOfColumn(1)) = SAMPLE_ROWS - 1
    /\ DataRows[Len(DataRows)][1] # EmptyString

\* C8: a successful run writes one record per header, the i-th record
\* carrying the i-th header.
C8_HeaderOrder ==
    Running =>
        /\ \A c \in 1..NumRecords : FieldName(RecordOfColumn(c)) = data[1][c]
        /\ NumRecords <= Len(data[1])
        /\ pc = "done" => NumRecords = Len(data[1])

\* a successful run over a sheet of two columns or more
C8_Witness ==
    /\ pc = "done"
    /\ Len(data[1]) >= 2
    /\ NumRecords = Len(data[1])

\* C9: a non-empty argument of boolean values only is classified Boolean.
C9_BooleansAreBoolean ==
    ( /\ pc = "inferred"
      /\ nonEmpty # <<>>
      /\ \A i \in 1..Len(nonEmpty) : nonEmpty[i].tag = "boolean" )
    => dataType = "Boolean"

-----------------------------------------------------------------------------
(* The communications endpoints of the web host *)

\* number of connections the host serves at a time
MaxConns == 2
\* number of POST requests of a run
MaxPosts == 3

Conns == 1..MaxConns
Pids == {"p1", "p2"}

\* request bodies
Bodies == { "{\"id\":\"m1\",\"text\":\"hi\"}",
            "{\"text\":\"hi\"}",
            "{\"id\":null}",
            "{\"id\":7}",
            "[1,2]",
            "{\"id\":" }

\* JsonDocument.ParseAsync(req.Body) and RootElement.Clone(): the element of a
\* body that is JSON (its kind and the kind of its "id" property), or a
\* JsonException
JsonParse(body) ==
    CASE body = "{\"id\":\"m1\",\"text\":\"hi\"}" ->
            [ok |-> TRUE, text |-> body, kind |-> "Object", id |-> "String", idValue |-> "m1"]
      [] body = "{\"text\":\"hi\"}" ->
            [ok |-> TRUE, text |-> body, kind |-> "Object", id |-> "none", idValue |-> ""]
      [] body = "{\"id\":null}" ->
            [ok |-> TRUE, text |-> body, kind |-> "Object", id |-> "Null", idValue |-> ""]
      [] body = "{\"id\":7}" ->
            [ok |-> TRUE, text |-> body, kind |-> "Object", id |-> "Number", idValue |-> ""]
      [] body = "[1,2]" ->
            [ok |-> TRUE, text |-> body, kind |-> "Array", id |-> "none", idValue |-> ""]
      [] OTHER ->
            [ok |-> FALSE, text |-> body, kind |-> "none", id |-> "none", idValue |-> ""]

NoElement == JsonParse("")
NoResponse == [status |-> "", location |-> <<>>, list |-> <<>>]

Idle == [pc |-> "idle", method |-> "", pid |-> "", body |-> "", el |-> NoElement,
         size |-> 0, response |-> NoResponse]

\* the list as its readers see it
Store == SubSeq(communications.items, 1, communications.size)

\* Line 42: whether the computation of id throws: TryGetProperty on an element
\* that is no object, GetString on a property that is neither a string nor null
IdThrows(el) == el.kind # "Object" \/ el.id \notin {"none", "String", "Null"}

\* Lines 42-43: the response of a POST whose element is stored; the id is the
\* "id" property when it is a string and a fresh Guid otherwise
Created(pid, el, guid) ==
    [status |-> "Created",
     location |-> <<pid, IF el.id = "String" THEN el.idValue ELSE guid>>,
     list |-> <<el.text>>]
BadRequest == [status |-> "BadRequest", location |-> <<>>, list |-> <<>>]

InitApi ==
    /\ sourceExists = FALSE
    /\ data = <<>>
    /\ dictExists = FALSE
    /\ dict = <<>>
    /\ dateDigits = FALSE
    /\ pc = "start"
    /\ error = ""
    /\ headers = <<>>
    /\ rows = <<>>
    /\ col = 0
    /\ columnValues = <<>>
    /\ nonEmpty = <<>>
    /\ k = 0
    /\ isNum = TRUE
    /\ isDate = TRUE
    /\ isBool = TRUE
    /\ dataType = Undefined
    /\ communications = [items |-> <<>>, size |-> 0]
    /\ req = [c \in Conns |-> Idle]
    /\ posted = <<>>
    /\ nPosts = 0

\* Line 33: GET /api/patients/{pid}/communications
Get(c, pid) ==
    /\ req[c].pc = "idle"
    /\ req' = [req EXCEPT ![c] = [Idle EXCEPT !.method = "GET", !.pid = pid,
                  !.response = [status |-> "Ok", location |-> <<>>, list |-> Store]]]
    /\ UNCHANGED <<communications, posted, nPosts, dictVars>>

\* Line 35: a POST arrives and its handler starts
PostReceive(c, pid, body) ==
    /\ req[c].pc = "idle"
    /\ nPosts < MaxPosts
    /\ nPosts' = nPosts + 1
    /\ req' = [req EXCEPT ![c] = [Idle EXCEPT !.pc = "parse", !.method = "POST",
                                               !.pid = pid, !.body = body]]
    /\ UNCHANGED <<communications, posted, dictVars>>

\* Lines 39-40 and 45-48: the body is parsed; a body that is not JSON throws
\* and the handler answers BadRequest
PostParse(c) ==
    /\ req[c].pc = "parse"
    /\ LET el == JsonParse(req[c].body)
       IN  IF el.ok
           THEN req' = [req EXCEPT ![c].pc = "add", ![c].el = el]
           ELSE req' = [req EXCEPT ![c].pc = "idle", ![c].response = BadRequest]
    /\ UNCHANGED <<communications, posted, nPosts, dictVars>>

\* Line 41: communications.Add(el) reads the size of the list
PostAddRead(c) ==
    /\ req[c].pc = "add"
    /\ req' = [req EXCEPT ![c].pc = "write", ![c].size = communications.size]
    /\ UNCHANGED <<communications, posted, nPosts, dictVars>>

\* Lines 41-48: communications.Add(el) stores the element in the slot after the
\* size it read and sets the size; the handler computes the id and answers
PostAddWrite(c, guid) ==
    /\ req[c].pc = "write"
    /\ LET n == req[c].size
           el == req[c].el
       IN  /\ communications' =
                 [items |-> IF n < Len(communications.items)
                            THEN [communications.items EXCEPT ![n + 1] = el.text]
                            ELSE Append(communications.items, el.text),
                  size  |-> n + 1]
           /\ req' = [req EXCEPT ![c].pc = "idle",
                         ![c].response = IF IdThrows(el) THEN BadRequest
                                         ELSE Created(req[c].pid, el, guid)]
           /\ posted' = Append(posted, el.text)
    /\ UNCHANGED <<nPosts, dictVars>>

NextApi ==
    \/ \E c \in Conns, pid \in Pids : Get(c, pid)
    \/ \E c \in Conns, pid \in Pids, body \in Bodies : PostReceive(c, pid, body)
    \/ \E c \in Conns : PostParse(c)
    \/ \E c \in Conns : PostAddRead(c)
    \/ \E c \in Conns, guid \in {"guid1", "guid2"} : PostAddWrite(c, guid)

SpecApi == InitApi /\ [][NextApi]_vars

\* no POST is in flight
Quiescent == \A c \in Conns : req[c].pc = "idle"

\* C10: whenever every request is answered the store is the sequence of the
\* bodies of the POSTs that parsed as JSON, in the order they completed; a
\* POST whose body fails to parse answers BadRequest and leaves the store as
\* it is; a GET leaves the store as it is and returns the whole of it,
\* whatever its pid.
C10_StoreIsPosted ==
    [][ /\ Quiescent' => Store' = posted'
        /\ \A c \in Conns :
              /\ (req[c].pc = "parse" /\ ~JsonParse(req[c].body).ok) =>
                    (req'[c] # req[c] =>
                        /\ req'[c].response.status = "BadRequest"
                        /\ communications' = communications)
              /\ (req'[c] # req[c] /\ req'[c].method = "GET") =>
                    /\ req'[c].response.list = Store
                    /\ communications' = communications ]_vars

=============================================================================
